---- MODULE Spec2Model ----
(***************************************************************************)
(* Versioned artifact store of the content pipeline (utils/versioning.py). *)
(*                                                                         *)
(* One content unit (a page/scene directory) is modelled: the files in the *)
(* directory, the persisted record versions.json, and the Version Manager  *)
(* operations that read-modify-write them.  A file name is the triple of   *)
(* its base name, the ordinal after "_v" (0: no "_v<n>" suffix, the legacy *)
(* flat file) and its extension; the 'created' timestamp of a version      *)
(* record is datetime.now() / st_mtime and is left out of the records.     *)
(* The content of a .txt file is its text as Path.read_text returns it,    *)
(* the content of any other file is its bytes.                             *)
(***************************************************************************)
EXTENDS Integers, Sequences, FiniteSets, TLC

\* ---------------------------------------------------------------- bounds
MaxVer == 3          \* highest ordinal a file name carries in the model
NumContents == 2     \* distinct file contents callers supply
MaxSteps == 3        \* operations in one history of all operations on all exercised kinds
MaxRestoreSteps == 4 \* operations in one history of create, restore and fast-forward calls
MaxDeepSteps == 6    \* operations in one history of a single metadata-tracked kind
MaxTarget == 1       \* highest target version a queued task is enqueued for
NumPrompts == 1      \* distinct prompt texts callers enqueue
MaxQueueSteps == 6   \* queue-manager calls in one history of the task queue
MaxWorkerEvents == 3 \* enqueues, image writes, I/O faults and restarts in one worker history
MaxProcOps == 3      \* calls and crashes in one history of two processes writing one unit
MaxConvergeOps == 4  \* calls in one history of two processes followed by a discovery
MaxPairOps == 2      \* create calls in one history of two processes on kinds of their own
MaxPendingSteps == 3 \* calls in one history of enqueues, marks, creates and clean-ups
MaxMainEvents == 3   \* enqueues, dashboard writes, exceptions and signals in one run of main()

\* ----------------------------------------------------------- asset kinds
AllKinds ==
  {"en_text", "hi_text", "en_audio", "hi_audio", "image", "image_video", "en_video", "hi_video"}

\* the kinds the operations are invoked on: a text kind, the audio kind that
\* shares its base name, and a page-video kind
Kinds == {"en_text", "en_audio", "en_video"}

UnknownKind == "unknown"

KindInputs == Kinds \cup {UnknownKind}

VideoKinds == {"en_video", "hi_video"}

\* a branch for each of the eight kinds, the page videos included
CreateKindsWithVideo == AllKinds

\* kinds create_new_version has a branch for
CreateKinds == {"en_text", "hi_text", "en_audio", "hi_audio", "image", "image_video"}

\* kinds migrate_legacy_files looks for
LegacyKinds == {"en_text", "hi_text", "en_audio", "hi_audio", "image"}

BaseName(k) ==
  CASE k = "en_text" -> "final_text_en"
    [] k = "hi_text" -> "final_text_hi"
    [] k = "en_audio" -> "final_text_en"
    [] k = "hi_audio" -> "final_text_hi"
    [] k = "image" -> "image_to_use"
    [] k = "image_video" -> "page_image_video"
    [] k = "en_video" -> "page_video_en"
    [] k = "hi_video" -> "page_video_hi"

Extension(k) ==
  CASE k \in {"en_text", "hi_text"} -> ".txt"
    [] k \in {"en_audio", "hi_audio"} -> ".mp3"
    [] k = "image" -> ".png"
    [] k \in {"image_video", "en_video", "hi_video"} -> ".mp4"

\* f"{base_name}_v{n}{extension}"; n = 0 stands for f"{base_name}{extension}"
VersionFile(k, n) == [base |-> BaseName(k), ver |-> n, ext |-> Extension(k)]

LegacyFile(k) == VersionFile(k, 0)

\* the empty string stored in 'latest' when a kind has no version
NoFile == [base |-> "", ver |-> 0, ext |-> ""]

\* the kinds the background worker reads and creates versions of
WorkerKinds == {"image", "image_video"}

\* the names the files of the exercised kinds can take
AllNames == {VersionFile(k, n) : k \in Kinds \cup WorkerKinds, n \in 0..MaxVer}

Absent == 0
Contents == 1..NumContents

\* ----------------------------------------------------------------- state
VARIABLES
  disk,          \* file name -> content, Absent when there is no such file
  versionsJson,  \* the persisted record, NoRecord while versions.json does not exist
  call,          \* the last operation: its name, arguments and return value
  run,           \* the create_new_version calls made on a kind since it had no versions
  steps,         \* operations performed so far
  queue,         \* task file name -> content, NoTask when there is no such file
  worker,        \* the background processor: its position in the polling loop
  hist,          \* per task since it was enqueued: claims, generation calls, versions created
  tmpJson,       \* the content of versions.json.tmp, NoRecord while there is no such file
  procs,         \* the interactive process and the worker: where each is in its call
  main           \* the worker process: its arguments, whether it runs, how it ended

vars == <<disk, versionsJson, call, run, steps, queue, worker, hist, tmpJson, procs, main>>

concVars == <<tmpJson, procs>>

storeVars == <<disk, versionsJson, call, run>>

queueVars == <<queue, worker, hist>>

NoRecord == [exists |-> FALSE]

DefaultMetadata == [k \in AllKinds |-> [latest |-> NoFile, versions |-> <<>>]]

get_version_metadata_file == versionsJson

load_version_metadata ==
  IF get_version_metadata_file = NoRecord THEN DefaultMetadata ELSE versionsJson

Exists(f) == f \in DOMAIN disk /\ disk[f] # Absent

NoCall == [op |-> "none", kind |-> "", arg |-> 0, ret |-> "", num |-> 0, path |-> NoFile]

NoRun == [kind |-> "", paths |-> <<>>]

\* ------------------------------------------------------------ task files
TaskTypes == {"image_edit", "image_to_video"}

Targets == 1..MaxTarget

Prompts == 1..NumPrompts

\* page_dir / f'{type}_prompt_for_v{target_version}.txt'
PromptFile(type, target_version) ==
  [type |-> type, target |-> target_version, suffix |-> ".txt"]

TaskFiles ==
  {[type |-> ty, target |-> n, suffix |-> sfx] :
     ty \in TaskTypes, n \in Targets, sfx \in {".txt", ".txt.completed", ".txt.failed"}}

TaskNames == {[type |-> ty, target |-> n] : ty \in TaskTypes, n \in Targets}

TaskName(f) == [type |-> f.type, target |-> f.target]

NoTask == [exists |-> FALSE]

NoPromptFile == [type |-> "", target |-> 0, suffix |-> ""]

Sleeping ==
  [pc |-> "sleep", phase |-> "", video_count |-> FALSE, todo |-> <<>>,
   current |-> NoPromptFile, output |-> Absent, created |-> 0]

NoHistory == [claims |-> 0, execs |-> 0, creates |-> 0]

\* ------------------------------------------------------------- processes
Procs == {"ui", "worker"}

\* a file just opened with mode 'w': nothing written yet
Truncated == [torn |-> "empty"]

\* a file whose bytes are not one complete json document
Torn == [torn |-> "mixed"]

\* json.load succeeds on the content
Parses(record) == record \notin {Truncated, Torn}

Idle ==
  [pc |-> "idle", op |-> "", kind |-> "", arg |-> 0, current |-> 0, path |-> NoFile,
   metadata |-> NoRecord, handle |-> "none"]

\* the prefixes of content-unit directory names: the current format and the
\* legacy one
UnitPrefixes == {"scene_", "page_"}

\* a worker started in continuous mode, with or without --pdf-stem, on a
\* document whose content unit has a directory name with the given prefix
Started(pdf_stem, unit) ==
  [running |-> TRUE, code |-> 0, raised |-> "", pdf_stem |-> pdf_stem, unit |-> unit]

\* an empty content unit, nothing queued, nobody in a call
EmptyUnit ==
  /\ disk = [f \in AllNames |-> Absent]
  /\ versionsJson = NoRecord
  /\ call = NoCall
  /\ run = NoRun
  /\ steps = 0
  /\ queue = [f \in TaskFiles |-> NoTask]
  /\ worker = Sleeping
  /\ hist = [t \in TaskNames |-> NoHistory]
  /\ tmpJson = NoRecord
  /\ procs = [p \in Procs |-> Idle]

Init ==
  /\ EmptyUnit
  /\ main = Started(FALSE, "scene_")

\* a run of creates on kind k ends when another operation is applied to k
EndRun(k) == IF run.kind = k THEN NoRun ELSE run

\* --------------------------------------------------- create_new_version
\* the ordinal taken from the length without the increment
NextVersionNoIncrement(versions) == Len(versions)

NextVersion(versions) == Len(versions) + 1

create_new_version(k, content) ==
  /\ LET metadata == load_version_metadata IN
     IF k \notin CreateKinds
     THEN /\ call' = [op |-> "create_new_version", kind |-> k, arg |-> content,
                      ret |-> "ValueError", num |-> 0, path |-> NoFile]
          /\ UNCHANGED <<disk, versionsJson, run>>
     ELSE LET versions == metadata[k].versions
              next_version == NextVersion(versions)
              new_filename == VersionFile(k, next_version)
              version_info == [file |-> new_filename, model |-> "model"]
          IN /\ next_version <= MaxVer
             /\ disk' = [disk EXCEPT ![new_filename] = content]
             /\ versionsJson' = [metadata EXCEPT ![k] =
                                   [latest |-> new_filename,
                                    versions |-> Append(versions, version_info)]]
             /\ call' = [op |-> "create_new_version", kind |-> k, arg |-> content,
                         ret |-> "path", num |-> next_version, path |-> new_filename]
             /\ run' = IF versions = <<>> THEN [kind |-> k, paths |-> <<new_filename>>]
                       ELSE IF run.kind = k
                            THEN [run EXCEPT !.paths = Append(@, new_filename)]
                            ELSE run

\* ---------------------------------------------------------------- readers
get_latest_version_path(k) ==
  LET metadata == load_version_metadata IN
  IF k \in DOMAIN metadata THEN metadata[k].latest ELSE NoFile

get_all_versions(k) ==
  LET metadata == load_version_metadata IN
  IF k \in DOMAIN metadata THEN metadata[k].versions ELSE <<>>

get_version_count(k) == Len(get_all_versions(k))

get_version_path(k, version_number) ==
  LET versions == get_all_versions(k) IN
  IF version_number < 1 \/ version_number > Len(versions) THEN NoFile
  ELSE versions[version_number].file

\* re.search(r'_v(\d+)\.mp4$', name) over page_dir.glob('page_video_xx_v*.mp4')
VideoOrdinals(k) == {n \in 1..MaxVer : Exists(VersionFile(k, n))}

SetMax(S) == IF S = {} THEN 0 ELSE CHOOSE m \in S : \A n \in S : n <= m

get_latest_version_number(k) ==
  IF k \in VideoKinds THEN SetMax(VideoOrdinals(k)) ELSE get_version_count(k)

\* the newest record picked whatever version number was asked for
VersionInfoAtLast(versions, version_number) == versions[Len(versions)]

\* version_info = versions[version_number - 1]
VersionInfoAt(versions, version_number) == versions[version_number]

\* --------------------------------------------------------- set_as_latest
set_as_latest(k, version_number) ==
  /\ LET metadata == load_version_metadata
         refused == [op |-> "set_as_latest", kind |-> k, arg |-> version_number,
                     ret |-> "False", num |-> 0, path |-> NoFile]
     IN IF k \notin DOMAIN metadata
        THEN call' = refused /\ UNCHANGED <<disk, versionsJson>>
        ELSE LET versions == metadata[k].versions IN
             IF version_number < 1 \/ version_number > Len(versions)
             THEN call' = refused /\ UNCHANGED <<disk, versionsJson>>
             ELSE /\ versionsJson' =
                       [metadata EXCEPT ![k].latest = VersionInfoAt(versions, version_number).file]
                  /\ call' = [op |-> "set_as_latest", kind |-> k, arg |-> version_number,
                              ret |-> "True", num |-> 0, path |-> NoFile]
                  /\ UNCHANGED disk
  /\ run' = EndRun(k)

\* -------------------------------------------------- fast_forward_version
\* only the target version recorded, the intermediate ordinals skipped
ForwardRecordsTargetOnly(k, from, to) ==
  <<[file |-> VersionFile(k, to), model |-> "fast-forward"]>>

\* version_info records appended by the loop over range(current + 1, target + 1)
RECURSIVE ForwardRecords(_, _, _)
ForwardRecords(k, from, to) ==
  IF from > to THEN <<>>
  ELSE <<[file |-> VersionFile(k, from), model |-> "fast-forward"]>>
         \o ForwardRecords(k, from + 1, to)

\* the check against the target letting a kind already at the target through
AtOrAboveTargetStrict(current_version, target_version) == current_version > target_version

\* if current_version >= target_version: return False
AtOrAboveTarget(current_version, target_version) == current_version >= target_version

fast_forward_version(k, target_version) ==
  /\ LET current_version == get_latest_version_number(k)
         latest_path == IF k \in VideoKinds THEN VersionFile(k, current_version)
                        ELSE get_latest_version_path(k)
         refused == [op |-> "fast_forward_version", kind |-> k, arg |-> target_version,
                     ret |-> "False", num |-> current_version, path |-> NoFile]
     IN IF \/ current_version = 0
           \/ AtOrAboveTarget(current_version, target_version)
           \/ latest_path = NoFile
           \/ ~Exists(latest_path)
           \/ k \notin AllKinds
        THEN call' = refused /\ UNCHANGED <<disk, versionsJson>>
        ELSE LET metadata == load_version_metadata
                 content == disk[latest_path]
                 added == ForwardRecords(k, current_version + 1, target_version)
             IN /\ disk' = [f \in DOMAIN disk |->
                              IF \E i \in 1..Len(added) : added[i].file = f
                              THEN content ELSE disk[f]]
                /\ versionsJson' = [metadata EXCEPT ![k] =
                                      [latest |-> VersionFile(k, target_version),
                                       versions |-> metadata[k].versions \o added]]
                /\ call' = [op |-> "fast_forward_version", kind |-> k, arg |-> target_version,
                            ret |-> "True", num |-> current_version, path |-> latest_path]
  /\ run' = EndRun(k)

\* --------------------------------------------------------- delete_version
\* the guard against deleting the latest version left out
IsLatestFileNever(version_info, latest_file) == FALSE

\* version_info['file'] == metadata[content_type]['latest']
IsLatestFile(version_info, latest_file) == version_info.file = latest_file

RemoveAt(s, i) == SubSeq(s, 1, i - 1) \o SubSeq(s, i + 1, Len(s))

delete_version(k, version_number) ==
  /\ LET metadata == load_version_metadata
         refused == [op |-> "delete_version", kind |-> k, arg |-> version_number,
                     ret |-> "False", num |-> 0, path |-> NoFile]
     IN IF k \notin DOMAIN metadata
        THEN call' = refused /\ UNCHANGED <<disk, versionsJson>>
        ELSE LET versions == metadata[k].versions IN
             IF \/ Len(versions) <= 1
                \/ version_number < 1
                \/ version_number > Len(versions)
             THEN call' = refused /\ UNCHANGED <<disk, versionsJson>>
             ELSE LET version_info == VersionInfoAt(versions, version_number) IN
                  IF IsLatestFile(version_info, metadata[k].latest)
                  THEN call' = refused /\ UNCHANGED <<disk, versionsJson>>
                  ELSE /\ disk' = [disk EXCEPT ![version_info.file] = Absent]
                       /\ versionsJson' =
                            [metadata EXCEPT ![k].versions = RemoveAt(versions, version_number)]
                       /\ call' = [op |-> "delete_version", kind |-> k, arg |-> version_number,
                                   ret |-> "True", num |-> 0, path |-> version_info.file]
  /\ run' = EndRun(k)

\* --------------------------------------------------- migrate_legacy_files
\* the legacy file adopted whether or not the kind has versions
MigratesKindWithVersions(metadata, k) ==
  /\ k \in LegacyKinds
  /\ Exists(LegacyFile(k))

\* if legacy_path.exists() and len(metadata[content_type]['versions']) == 0
MigratesKind(metadata, k) ==
  /\ k \in LegacyKinds
  /\ Exists(LegacyFile(k))
  /\ Len(metadata[k].versions) = 0

migrate_legacy_files ==
  /\ LET metadata == load_version_metadata
         migrated == {k \in AllKinds : MigratesKind(metadata, k)}
     IN /\ disk' = [f \in DOMAIN disk |->
                      IF \E k \in migrated : f = LegacyFile(k) THEN Absent
                      ELSE IF \E k \in migrated : f = VersionFile(k, 1)
                           THEN disk[[f EXCEPT !.ver = 0]]
                           ELSE disk[f]]
        /\ versionsJson' = [k \in AllKinds |->
                              IF k \in migrated
                              THEN [latest |-> VersionFile(k, 1),
                                    versions |-> Append(metadata[k].versions,
                                                   [file |-> VersionFile(k, 1),
                                                    model |-> "unknown (migrated)"])]
                              ELSE metadata[k]]
        /\ call' = [op |-> "migrate_legacy_files", kind |-> "", arg |-> 0,
                    ret |-> "None", num |-> Cardinality(migrated), path |-> NoFile]
  /\ run' = NoRun

\* ----------------------------------------- discover_and_register_versions
\* int(match.group(1)) of re.search(r'_v(\d+)', file), 0 without a match
extract_version_num(v) == IF v.file.ver >= 1 THEN v.file.ver ELSE 0

\* list.sort(key=...) is stable: equal keys keep their order
RECURSIVE InsertByVersionNum(_, _)
InsertByVersionNum(sorted, v) ==
  IF sorted = <<>> THEN <<v>>
  ELSE IF extract_version_num(Head(sorted)) <= extract_version_num(v)
       THEN <<Head(sorted)>> \o InsertByVersionNum(Tail(sorted), v)
       ELSE <<v>> \o sorted

RECURSIVE SortByVersionNum(_)
SortByVersionNum(versions) ==
  IF versions = <<>> THEN <<>>
  ELSE InsertByVersionNum(SortByVersionNum(SubSeq(versions, 1, Len(versions) - 1)),
                          versions[Len(versions)])

\* no file taken as tracked
TrackedFilesNone(versions) == {}

\* tracked_files = {v['file'] for v in metadata[content_type]['versions']}
TrackedFiles(versions) == {versions[i].file : i \in 1..Len(versions)}

\* files on disk matching the kind's pattern ^<base>_v(\d+)<ext>$ and not tracked,
\* as records sorted by version_num, from ordinal 'from' upward
RECURSIVE FoundVersions(_, _, _)
FoundVersions(k, tracked, from) ==
  IF from > MaxVer THEN <<>>
  ELSE (IF Exists(VersionFile(k, from)) /\ VersionFile(k, from) \notin tracked
        THEN <<[file |-> VersionFile(k, from), model |-> "external"]>>
        ELSE <<>>)
       \o FoundVersions(k, tracked, from + 1)

DiscoverKind(metadata, k) ==
  LET found_versions == FoundVersions(k, TrackedFiles(metadata[k].versions), 1)
      versions == SortByVersionNum(metadata[k].versions \o found_versions)
  IN IF found_versions = <<>> THEN metadata[k]
     ELSE [latest |-> versions[Len(versions)].file, versions |-> versions]

Discovered(metadata) ==
  {k \in AllKinds : FoundVersions(k, TrackedFiles(metadata[k].versions), 1) # <<>>}

discover_and_register_versions ==
  /\ LET metadata == load_version_metadata
         discovered == Discovered(metadata)
     IN /\ IF discovered # {}
           THEN versionsJson' = [k \in AllKinds |-> DiscoverKind(metadata, k)]
           ELSE UNCHANGED versionsJson
        /\ call' = [op |-> "discover_and_register_versions", kind |-> "", arg |-> 0,
                    ret |-> "dict", num |-> Cardinality(discovered), path |-> NoFile]
  /\ UNCHANGED disk
  /\ run' = NoRun

\* --------------------------------------------------- cleanup_old_versions
\* re.match(base_pattern, name) with base_pattern = '^' + base name of the kind
MatchesBasePattern(k, f) == f.base = BaseName(k)

RECURSIVE SelectLatest(_, _)
SelectLatest(versions, latest_file) ==
  IF versions = <<>> THEN <<>>
  ELSE (IF Head(versions).file = latest_file THEN <<Head(versions)>> ELSE <<>>)
       \o SelectLatest(Tail(versions), latest_file)

cleanup_old_versions(k) ==
  /\ LET metadata == load_version_metadata IN
     IF k \notin DOMAIN metadata
     THEN /\ call' = [op |-> "cleanup_old_versions", kind |-> k, arg |-> 0,
                      ret |-> "count", num |-> 0, path |-> NoFile]
          /\ UNCHANGED <<disk, versionsJson>>
     ELSE LET versions == metadata[k].versions
              latest_file == metadata[k].latest
              files_to_keep == IF latest_file # NoFile THEN {latest_file} ELSE {}
              all_matching_files == {f \in DOMAIN disk : Exists(f) /\ MatchesBasePattern(k, f)}
              deleted == all_matching_files \ files_to_keep
          IN /\ disk' = [f \in DOMAIN disk |-> IF f \in deleted THEN Absent ELSE disk[f]]
             /\ versionsJson' =
                  [metadata EXCEPT ![k].versions = SelectLatest(versions, latest_file)]
             /\ call' = [op |-> "cleanup_old_versions", kind |-> k, arg |-> 0,
                         ret |-> "count", num |-> Cardinality(deleted), path |-> latest_file]
  /\ run' = EndRun(k)

\* ------------------------------------------------- writers outside the store
\* rewrite_for_kids.py, generate_voiceovers.py and extract_pdfs.py write the
\* flat files final_text_xx.txt, final_text_xx.mp3 and image_to_use.png
WriteLegacyFile(k, content) ==
  /\ k \in LegacyKinds
  /\ disk' = [disk EXCEPT ![LegacyFile(k)] = content]
  /\ call' = [op |-> "write_legacy_file", kind |-> k, arg |-> content,
              ret |-> "None", num |-> 0, path |-> LegacyFile(k)]
  /\ UNCHANGED <<versionsJson, run>>

\* the page-video stage drivers write page_video_xx_v{expected_version}.mp4
\* directly; expected_version is the maximum over every unit of the document
WritePageVideo(k, expected_version, content) ==
  /\ k \in VideoKinds
  /\ disk' = [disk EXCEPT ![VersionFile(k, expected_version)] = content]
  /\ call' = [op |-> "write_page_video", kind |-> k, arg |-> content,
              ret |-> "None", num |-> expected_version,
              path |-> VersionFile(k, expected_version)]
  /\ UNCHANGED <<versionsJson, run>>

\* one more Version Manager operation of a history of at most 'budget'
\* operations; the task queue and the worker are not involved
Bounded(budget) ==
  /\ steps < budget
  /\ steps' = steps + 1
  /\ UNCHANGED queueVars
  /\ UNCHANGED concVars
  /\ UNCHANGED main

Next ==
  \/ \E k \in KindInputs, c \in Contents : Bounded(MaxSteps) /\ create_new_version(k, c)
  \/ \E k \in KindInputs, n \in 0..MaxVer : Bounded(MaxSteps) /\ set_as_latest(k, n)
  \/ \E k \in KindInputs, t \in 1..MaxVer : Bounded(MaxSteps) /\ fast_forward_version(k, t)
  \/ \E k \in KindInputs, n \in 0..MaxVer : Bounded(MaxSteps) /\ delete_version(k, n)
  \/ Bounded(MaxSteps) /\ migrate_legacy_files
  \/ Bounded(MaxSteps) /\ discover_and_register_versions
  \/ \E k \in KindInputs : Bounded(MaxSteps) /\ cleanup_old_versions(k)
  \/ \E k \in Kinds, c \in Contents : Bounded(MaxSteps) /\ WriteLegacyFile(k, c)
  \/ \E k \in Kinds, n \in 1..MaxVer, c \in Contents :
       Bounded(MaxSteps) /\ WritePageVideo(k, n, c)

Spec == Init /\ [][Next]_vars

\* histories of create_new_version and fast_forward_version calls, with the
\* page-video stage drivers writing their files
NextAppend ==
  \/ \E k \in Kinds, c \in Contents : Bounded(MaxSteps) /\ create_new_version(k, c)
  \/ \E k \in Kinds, t \in 1..MaxVer : Bounded(MaxSteps) /\ fast_forward_version(k, t)
  \/ \E k \in Kinds, n \in 1..MaxVer, c \in Contents :
       Bounded(MaxSteps) /\ WritePageVideo(k, n, c)

SpecAppend == Init /\ [][NextAppend]_vars

\* histories of create, restore and fast-forward calls on a metadata-tracked
\* kind and a page-video kind
RestoreKinds == {"en_text", "en_video"}

NextRestore ==
  \/ \E k \in RestoreKinds, c \in Contents :
       Bounded(MaxRestoreSteps) /\ create_new_version(k, c)
  \/ \E k \in RestoreKinds, n \in 1..MaxVer :
       Bounded(MaxRestoreSteps) /\ set_as_latest(k, n)
  \/ \E k \in RestoreKinds, t \in 1..MaxVer :
       Bounded(MaxRestoreSteps) /\ fast_forward_version(k, t)
  \/ \E k \in RestoreKinds, n \in 1..MaxVer, c \in Contents :
       Bounded(MaxRestoreSteps) /\ WritePageVideo(k, n, c)

SpecRestore == Init /\ [][NextRestore]_vars

\* longer histories of the operations on one metadata-tracked kind
DeepKind == "en_text"

NextDeep ==
  \/ \E c \in Contents : Bounded(MaxDeepSteps) /\ create_new_version(DeepKind, c)
  \/ \E k \in {DeepKind, UnknownKind}, n \in 0..MaxVer :
       Bounded(MaxDeepSteps) /\ set_as_latest(k, n)
  \/ \E t \in 1..MaxVer : Bounded(MaxDeepSteps) /\ fast_forward_version(DeepKind, t)
  \/ \E n \in 1..MaxVer : Bounded(MaxDeepSteps) /\ delete_version(DeepKind, n)
  \/ Bounded(MaxDeepSteps) /\ cleanup_old_versions(DeepKind)

SpecDeep == Init /\ [][NextDeep]_vars

\* histories in which a kind's list is cut down and grows again, page-video
\* files appear on disk, and discovery runs
NextDiscover ==
  \/ \E c \in Contents : Bounded(MaxDeepSteps) /\ create_new_version(DeepKind, c)
  \/ \E t \in 1..MaxVer : Bounded(MaxDeepSteps) /\ fast_forward_version(DeepKind, t)
  \/ Bounded(MaxDeepSteps) /\ cleanup_old_versions(DeepKind)
  \/ Bounded(MaxDeepSteps) /\ discover_and_register_versions
  \/ \E n \in 1..MaxVer, c \in Contents :
       Bounded(MaxDeepSteps) /\ WritePageVideo("en_video", n, c)

SpecDiscover == Init /\ [][NextDiscover]_vars

\* ------------------------------------------------------------ queue manager
\* A task file holds the prompt, for the '#'-metadata format the value of its
\* "# Status:" line, and the comment lines the mark_* functions have appended.
QueueCall(op, type, target_version, ret) ==
  [op |-> op, kind |-> type, arg |-> target_version, ret |-> ret, num |-> 0, path |-> NoFile]

queue_image_edit_prompt(target_version, prompt) ==
  /\ queue' = [queue EXCEPT ![PromptFile("image_edit", target_version)] =
                  [format |-> "meta", status |-> "PENDING", prompt |-> prompt, lines |-> <<>>]]
  /\ hist' = [hist EXCEPT ![[type |-> "image_edit", target |-> target_version]] = NoHistory]

\* only the prompt text is written: the file has no "# Status:" line
queue_image_to_video_prompt(target_version, prompt) ==
  /\ queue' = [queue EXCEPT ![PromptFile("image_to_video", target_version)] =
                  [format |-> "bare", status |-> "", prompt |-> prompt, lines |-> <<>>]]
  /\ hist' = [hist EXCEPT ![[type |-> "image_to_video", target |-> target_version]] = NoHistory]

\* sorted(page_dir.glob('<type>_prompt_for_v*.txt')), from target 'from' upward;
\* the order of the names is the order of the targets while these have one digit
RECURSIVE QueuedFrom(_, _, _)
QueuedFrom(q, type, from) ==
  IF from > MaxTarget THEN <<>>
  ELSE (IF q[PromptFile(type, from)] # NoTask THEN <<PromptFile(type, from)>> ELSE <<>>)
       \o QueuedFrom(q, type, from + 1)

get_queued_prompts(type) == QueuedFrom(queue, type, 1)

ReplaceStatus(content, old, new) ==
  IF content.status = old THEN [content EXCEPT !.status = new] ELSE content

MarkedProcessing(content) ==
  [ReplaceStatus(content, "PENDING", "PROCESSING")
     EXCEPT !.lines = Append(@, "# Processing started")]

MarkedCompleted(content) ==
  [ReplaceStatus(ReplaceStatus(content, "PROCESSING", "COMPLETED"), "PENDING", "COMPLETED")
     EXCEPT !.lines = Append(@, "# Completed at")]

MarkedFailed(content) ==
  [ReplaceStatus(ReplaceStatus(content, "PROCESSING", "FAILED"), "PENDING", "FAILED")
     EXCEPT !.lines = Append(Append(@, "# Failed at"), "# Error")]

\* the archived name left equal to the name in the polling set
completed_file_unarchived(prompt_file) == prompt_file

\* prompt_file.with_suffix('.txt.completed')
completed_file(prompt_file) == [prompt_file EXCEPT !.suffix = ".txt.completed"]

\* the archived name left equal to the name in the polling set
failed_file_unarchived(prompt_file) == prompt_file

\* prompt_file.with_suffix('.txt.failed')
failed_file(prompt_file) == [prompt_file EXCEPT !.suffix = ".txt.failed"]

\* I/O errors a call on a task file can meet: none, in write_text, in rename
Faults == {"none", "write", "rename"}

\* the value the mark_* functions return: False when read_text, write_text or
\* rename raised
MarkReturns(prompt_file, fault) ==
  IF prompt_file \in DOMAIN queue /\ queue[prompt_file] # NoTask /\ fault = "none"
  THEN "True" ELSE "False"

mark_prompt_as_processing(prompt_file, fault) ==
  IF prompt_file \notin DOMAIN queue \/ queue[prompt_file] = NoTask \/ fault = "write"
  THEN queue' = queue
  ELSE queue' = [queue EXCEPT ![prompt_file] = MarkedProcessing(@)]

mark_prompt_as_completed(prompt_file, fault) ==
  IF prompt_file \notin DOMAIN queue \/ queue[prompt_file] = NoTask \/ fault = "write"
  THEN queue' = queue
  ELSE IF fault = "rename"
       THEN queue' = [queue EXCEPT ![prompt_file] = MarkedCompleted(@)]
       ELSE queue' = [f \in DOMAIN queue |->
                        IF f = completed_file(prompt_file)
                        THEN MarkedCompleted(queue[prompt_file])
                        ELSE IF f = prompt_file THEN NoTask ELSE queue[f]]

mark_prompt_as_failed(prompt_file, fault) ==
  IF prompt_file \notin DOMAIN queue \/ queue[prompt_file] = NoTask \/ fault = "write"
  THEN queue' = queue
  ELSE IF fault = "rename"
       THEN queue' = [queue EXCEPT ![prompt_file] = MarkedFailed(@)]
       ELSE queue' = [f \in DOMAIN queue |->
                        IF f = failed_file(prompt_file)
                        THEN MarkedFailed(queue[prompt_file])
                        ELSE IF f = prompt_file THEN NoTask ELSE queue[f]]

NoPrompt == [exists |-> FALSE]

\* the '#'-metadata format gives the lines that do not start with '#', the
\* bare format the whole content
read_prompt_from_file(prompt_file) ==
  IF prompt_file \notin DOMAIN queue \/ queue[prompt_file] = NoTask THEN NoPrompt
  ELSE IF queue[prompt_file].format = "meta"
       THEN [prompt |-> queue[prompt_file].prompt, trailing |-> <<>>]
       ELSE [prompt |-> queue[prompt_file].prompt, trailing |-> queue[prompt_file].lines]

\* one more queue-manager call of a history of at most 'budget' calls; the
\* version store and the worker are not involved
QueueBounded(budget) ==
  /\ steps < budget
  /\ steps' = steps + 1
  /\ UNCHANGED <<disk, versionsJson, run, worker>>
  /\ UNCHANGED concVars
  /\ UNCHANGED main

\* histories of queue-manager calls in any order, no I/O error occurring
NextQueue ==
  \/ \E n \in Targets, p \in Prompts :
       /\ QueueBounded(MaxQueueSteps)
       /\ queue_image_edit_prompt(n, p)
       /\ call' = QueueCall("queue_image_edit_prompt", "image_edit", n, "path")
  \/ \E n \in Targets, p \in Prompts :
       /\ QueueBounded(MaxQueueSteps)
       /\ queue_image_to_video_prompt(n, p)
       /\ call' = QueueCall("queue_image_to_video_prompt", "image_to_video", n, "path")
  \/ \E ty \in TaskTypes, n \in Targets :
       /\ QueueBounded(MaxQueueSteps)
       /\ mark_prompt_as_processing(PromptFile(ty, n), "none")
       /\ call' = QueueCall("mark_prompt_as_processing", ty, n,
                             MarkReturns(PromptFile(ty, n), "none"))
       /\ UNCHANGED hist
  \/ \E ty \in TaskTypes, n \in Targets :
       /\ QueueBounded(MaxQueueSteps)
       /\ mark_prompt_as_completed(PromptFile(ty, n), "none")
       /\ call' = QueueCall("mark_prompt_as_completed", ty, n,
                             MarkReturns(PromptFile(ty, n), "none"))
       /\ UNCHANGED hist
  \/ \E ty \in TaskTypes, n \in Targets :
       /\ QueueBounded(MaxQueueSteps)
       /\ mark_prompt_as_failed(PromptFile(ty, n), "none")
       /\ call' = QueueCall("mark_prompt_as_failed", ty, n,
                             MarkReturns(PromptFile(ty, n), "none"))
       /\ UNCHANGED hist

SpecQueue == Init /\ [][NextQueue]_vars

\* ------------------------------------------------ clean-up of untracked files
\* re.match(r'.*_v\d+\.(txt|mp3|mp4|png)$', name): a version file of any kind
MatchesVersionedPattern(f) == f \in DOMAIN disk /\ f.ver >= 1

\* re.match on a task file name: '<type>_prompt_for_v<n>.txt' ends in
\* _v<n>.txt, and 'image_to_video_prompt.*\.txt$' names the video prompts;
\* the archived names end in .completed / .failed and match neither
TaskFileMatches(f) == f.suffix = ".txt"

\* the 'file' of every record of every kind
AllTrackedFiles(metadata) ==
  UNION {TrackedFiles(metadata[k].versions) : k \in DOMAIN metadata}

\* every file of the unit that is not tracked in versions.json and matches a
\* versioned pattern is unlinked; versions.json is not written
cleanup_untracked_variations ==
  LET metadata == load_version_metadata
      tracked_files == AllTrackedFiles(metadata)
      deleted == {f \in DOMAIN disk :
                    Exists(f) /\ f \notin tracked_files /\ MatchesVersionedPattern(f)}
      deleted_tasks == {f \in DOMAIN queue : queue[f] # NoTask /\ TaskFileMatches(f)}
  IN /\ disk' = [f \in DOMAIN disk |-> IF f \in deleted THEN Absent ELSE disk[f]]
     /\ queue' = [f \in DOMAIN queue |-> IF f \in deleted_tasks THEN NoTask ELSE queue[f]]
     /\ call' = [op |-> "cleanup_untracked_variations", kind |-> "", arg |-> 0,
                 ret |-> "count", num |-> Cardinality(deleted) + Cardinality(deleted_tasks),
                 path |-> NoFile]
     /\ UNCHANGED <<versionsJson, run>>

\* one more call of a history of at most MaxPendingSteps calls
PendingStep ==
  /\ steps < MaxPendingSteps
  /\ steps' = steps + 1
  /\ UNCHANGED <<worker, main>>
  /\ UNCHANGED concVars

\* the dashboard enqueues tasks, creates versions and cleans the unit up; the
\* page-video stage writes its file; tasks are marked
NextPending ==
  \/ \E n \in Targets, p \in Prompts :
       /\ PendingStep
       /\ queue_image_edit_prompt(n, p)
       /\ call' = QueueCall("queue_image_edit_prompt", "image_edit", n, "path")
       /\ UNCHANGED <<disk, versionsJson, run>>
  \/ \E n \in Targets, p \in Prompts :
       /\ PendingStep
       /\ queue_image_to_video_prompt(n, p)
       /\ call' = QueueCall("queue_image_to_video_prompt", "image_to_video", n, "path")
       /\ UNCHANGED <<disk, versionsJson, run>>
  \/ \E ty \in TaskTypes, n \in Targets :
       /\ PendingStep
       /\ mark_prompt_as_processing(PromptFile(ty, n), "none")
       /\ call' = QueueCall("mark_prompt_as_processing", ty, n,
                             MarkReturns(PromptFile(ty, n), "none"))
       /\ UNCHANGED <<disk, versionsJson, run, hist>>
  \/ \E ty \in TaskTypes, n \in Targets :
       /\ PendingStep
       /\ mark_prompt_as_completed(PromptFile(ty, n), "none")
       /\ call' = QueueCall("mark_prompt_as_completed", ty, n,
                             MarkReturns(PromptFile(ty, n), "none"))
       /\ UNCHANGED <<disk, versionsJson, run, hist>>
  \/ \E ty \in TaskTypes, n \in Targets :
       /\ PendingStep
       /\ mark_prompt_as_failed(PromptFile(ty, n), "none")
       /\ call' = QueueCall("mark_prompt_as_failed", ty, n,
                             MarkReturns(PromptFile(ty, n), "none"))
       /\ UNCHANGED <<disk, versionsJson, run, hist>>
  \/ \E k \in WorkerKinds, c \in Contents :
       PendingStep /\ create_new_version(k, c) /\ UNCHANGED <<queue, hist>>
  \/ \E n \in 1..MaxVer, c \in Contents :
       PendingStep /\ WritePageVideo("en_video", n, c) /\ UNCHANGED <<queue, hist>>
  \/ PendingStep /\ cleanup_untracked_variations /\ UNCHANGED hist

SpecPending == Init /\ [][NextPending]_vars

\* ---------------------------------------------------- background processor
\* the kind process_image_edit_queue / process_image_to_video_queue creates
KindOfTask(type) == IF type = "image_edit" THEN "image" ELSE "image_video"

\* get_latest_version_path(page_dir, 'image'), else page_dir / 'image_to_use.png'
image_path ==
  IF get_latest_version_path("image") # NoFile THEN get_latest_version_path("image")
  ELSE LegacyFile("image")

\* an enqueue, an image written by the extraction stage, an I/O error or a
\* restart of the worker: one more event of at most MaxWorkerEvents
WorkerEvent ==
  steps < MaxWorkerEvents /\ steps' = steps + 1 /\ UNCHANGED concVars /\ UNCHANGED main

NoEvent == steps' = steps /\ UNCHANGED concVars /\ UNCHANGED main

WithFault(fault) == IF fault = "none" THEN NoEvent ELSE WorkerEvent

\* one cycle starts: the counts of both queues are taken, a unit without
\* queued tasks is skipped
process_all_queues ==
  /\ worker.pc = "sleep"
  /\ LET image_edit_count == Len(get_queued_prompts("image_edit"))
         image_video_count == Len(get_queued_prompts("image_to_video"))
     IN /\ ~(image_edit_count = 0 /\ image_video_count = 0)
        /\ worker' = [Sleeping EXCEPT
                        !.pc = IF image_edit_count > 0 THEN "image_edit" ELSE "image_to_video",
                        !.video_count = image_video_count > 0]
  /\ NoEvent
  /\ UNCHANGED <<storeVars, queue, hist>>

\* process_image_edit_queue / process_image_to_video_queue list their queue
process_queue ==
  /\ worker.pc \in TaskTypes
  /\ worker' = [worker EXCEPT !.pc = "loop", !.phase = worker.pc,
                               !.todo = get_queued_prompts(worker.pc)]
  /\ NoEvent
  /\ UNCHANGED <<storeVars, queue, hist>>

\* the listed prompts are done: on to the image-to-video queue, or to sleep
queue_done ==
  /\ worker.pc = "loop"
  /\ worker.todo = <<>>
  /\ worker' = IF worker.phase = "image_edit" /\ worker.video_count
                THEN [Sleeping EXCEPT !.pc = "image_to_video"]
                ELSE Sleeping
  /\ NoEvent
  /\ UNCHANGED <<storeVars, queue, hist>>

\* for prompt_file in queued_prompts: mark_prompt_as_processing(prompt_file),
\* its return value not looked at
claim_prompt(fault) ==
  /\ worker.pc = "loop"
  /\ worker.todo # <<>>
  /\ LET prompt_file == Head(worker.todo)
     IN /\ mark_prompt_as_processing(prompt_file, fault)
        /\ worker' = [worker EXCEPT !.pc = "try", !.current = prompt_file,
                                     !.todo = Tail(worker.todo)]
        /\ hist' = [hist EXCEPT ![TaskName(prompt_file)].claims = @ + 1]
  /\ WithFault(fault)
  /\ UNCHANGED storeVars

\* the prompt is read, the latest image looked up and the external generation
\* called; a missing prompt or image and a failed generation raise
generate(outcome, content) ==
  /\ worker.pc = "try"
  /\ IF read_prompt_from_file(worker.current) = NoPrompt \/ ~Exists(image_path)
     THEN /\ worker' = [worker EXCEPT !.pc = "except"]
          /\ UNCHANGED hist
     ELSE /\ hist' = [hist EXCEPT ![TaskName(worker.current)].execs = @ + 1]
          /\ worker' = IF outcome = "ok"
                        THEN [worker EXCEPT !.pc = "create", !.output = content]
                        ELSE [worker EXCEPT !.pc = "except"]
  /\ NoEvent
  /\ UNCHANGED <<storeVars, queue>>

\* create_new_version(page_dir, kind, str(temp_output), model=...)
create_from_output ==
  /\ worker.pc = "create"
  /\ create_new_version(KindOfTask(worker.phase), worker.output)
  /\ worker' = [worker EXCEPT
                  !.pc = "complete", !.output = Absent,
                  !.created = NextVersion(get_all_versions(KindOfTask(worker.phase)))]
  /\ hist' = [hist EXCEPT ![TaskName(worker.current)].creates = @ + 1]
  /\ NoEvent
  /\ UNCHANGED queue

\* mark_prompt_as_completed(prompt_file), its return value not looked at
complete_prompt(fault) ==
  /\ worker.pc = "complete"
  /\ mark_prompt_as_completed(worker.current, fault)
  /\ worker' = [worker EXCEPT !.pc = "loop", !.current = NoPromptFile, !.created = 0]
  /\ WithFault(fault)
  /\ UNCHANGED <<storeVars, hist>>

\* except Exception: mark_prompt_as_failed(prompt_file, str(e))
fail_prompt(fault) ==
  /\ worker.pc = "except"
  /\ mark_prompt_as_failed(worker.current, fault)
  /\ worker' = [worker EXCEPT !.pc = "loop", !.current = NoPromptFile]
  /\ WithFault(fault)
  /\ UNCHANGED <<storeVars, hist>>

\* the worker process ends wherever it is and is started again
restart_worker ==
  /\ worker # Sleeping
  /\ worker' = Sleeping
  /\ WorkerEvent
  /\ UNCHANGED <<storeVars, queue, hist>>

\* the dashboard enqueues tasks and the extraction stage writes the image
\* while a single worker polls; I/O errors and restarts occur
NextWorker ==
  \/ \E n \in Targets, p \in Prompts :
       WorkerEvent /\ queue_image_edit_prompt(n, p) /\ UNCHANGED <<storeVars, worker>>
  \/ \E n \in Targets, p \in Prompts :
       WorkerEvent /\ queue_image_to_video_prompt(n, p) /\ UNCHANGED <<storeVars, worker>>
  \/ \E c \in Contents : WorkerEvent /\ WriteLegacyFile("image", c) /\ UNCHANGED queueVars
  \/ process_all_queues
  \/ process_queue
  \/ queue_done
  \/ \E fault \in {"none", "write"} : claim_prompt(fault)
  \/ \E outcome \in {"ok", "error"}, c \in Contents : generate(outcome, c)
  \/ create_from_output
  \/ \E fault \in Faults : complete_prompt(fault)
  \/ \E fault \in Faults : fail_prompt(fault)
  \/ restart_worker

SpecWorker == Init /\ [][NextWorker]_vars

\* ------------------------------------------------- the worker's main loop
\* main() in continuous mode: cycles of process_all_queues until the process
\* ends; the dashboard enqueues and creates versions meanwhile.
Running == main.running

\* the content unit is among the page_dirs of process_all_queues: with
\* --pdf-stem the directories named page_*, without it those named scene_*
\* (get_all_page_directories)
Scanned == IF main.pdf_stem THEN main.unit = "page_" ELSE main.unit = "scene_"

\* one more event around the worker (an enqueue, a version created by the
\* dashboard, an exception, a signal) of at most MaxMainEvents
MainEvent == steps < MaxMainEvents /\ steps' = steps + 1 /\ UNCHANGED concVars

DashboardEvent == MainEvent /\ UNCHANGED main

\* the dashboard queues an edit for the next image version
dashboard_queue_image_edit(prompt) ==
  LET target_version == get_version_count("image") + 1 IN
  /\ target_version \in Targets
  /\ queue_image_edit_prompt(target_version, prompt)

\* the dashboard queues a video for the next image-video version
dashboard_queue_image_to_video(prompt) ==
  LET target_version == get_version_count("image_video") + 1 IN
  /\ target_version \in Targets
  /\ queue_image_to_video_prompt(target_version, prompt)

\* an exception raised in a cycle outside the try block of a task (listing the
\* directories or the queue fails) reaches main(): except Exception logs it
\* and calls sys.exit(1)
cycle_error ==
  /\ Running
  /\ worker.pc \in {"sleep"} \cup TaskTypes
  /\ main' = [main EXCEPT !.running = FALSE, !.code = 1, !.raised = "Exception"]
  /\ MainEvent
  /\ UNCHANGED <<storeVars, queue, worker, hist>>

\* KeyboardInterrupt is raised wherever the worker is; the tasks' handler is
\* 'except Exception', which does not catch it, so it reaches main():
\* except KeyboardInterrupt calls sys.exit(0)
interrupt ==
  /\ Running
  /\ main' = [main EXCEPT !.running = FALSE, !.code = 0, !.raised = "KeyboardInterrupt"]
  /\ MainEvent
  /\ UNCHANGED <<storeVars, queue, worker, hist>>

\* the steps of the polling loop, no I/O error occurring on the task files
NextLoop ==
  \/ Running /\ Scanned /\ process_all_queues
  \/ Running /\ process_queue
  \/ Running /\ queue_done
  \/ Running /\ claim_prompt("none")
  \/ \E outcome \in {"ok", "error"}, c \in Contents : Running /\ generate(outcome, c)
  \/ Running /\ create_from_output
  \/ Running /\ complete_prompt("none")
  \/ Running /\ fail_prompt("none")

\* what the dashboard and the extraction stage do around the worker
NextDashboard ==
  \/ \E p \in Prompts :
       DashboardEvent /\ dashboard_queue_image_edit(p) /\ UNCHANGED <<storeVars, worker>>
  \/ \E p \in Prompts :
       DashboardEvent /\ dashboard_queue_image_to_video(p) /\ UNCHANGED <<storeVars, worker>>
  \/ \E c \in Contents : DashboardEvent /\ WriteLegacyFile("image", c) /\ UNCHANGED queueVars
  \/ \E k \in WorkerKinds, c \in Contents :
       DashboardEvent /\ create_new_version(k, c) /\ UNCHANGED queueVars

NextMain ==
  \/ NextDashboard
  \/ NextLoop
  \/ cycle_error
  \/ interrupt

\* started with or without --pdf-stem, on a unit of either directory format
InitMain ==
  /\ EmptyUnit
  /\ \E pdf_stem \in BOOLEAN, unit \in UnitPrefixes : main = Started(pdf_stem, unit)

SpecMain == InitMain /\ [][NextMain]_vars

\* the worker is neither interrupted nor hit by an exception outside a task,
\* and it keeps taking the steps of its polling loop: every generation call
\* returns, every sleep ends
NextLive ==
  \/ NextDashboard
  \/ NextLoop

SpecLive == InitMain /\ [][NextLive]_vars /\ WF_vars(NextLoop)

\* ------------------------------------------- calls of two processes, in steps
\* The interactive process and the worker call the Version Manager on the
\* same unit with no lock: a call is its load, its file writes, and the three
\* steps of save_version_metadata (open the temp file, write and close it,
\* replace versions.json by it).
ConcKinds == WorkerKinds

\* a call begins or a process is killed: one more of at most 'budget'; no
\* call has completed in this step
ProcOp(budget) ==
  /\ steps < budget
  /\ steps' = steps + 1
  /\ call' = NoCall
  /\ UNCHANGED <<run, main>>
  /\ UNCHANGED queueVars

ProcStep == UNCHANGED <<steps, call, run, main>> /\ UNCHANGED queueVars

\* create_new_version: metadata = load_version_metadata(page_dir); json.load
\* raises on a file that is not a json document
begin_create(p, k, content) ==
  /\ procs[p].pc = "idle"
  /\ procs' = [procs EXCEPT ![p] =
                 IF Parses(versionsJson)
                 THEN [Idle EXCEPT !.pc = "write_file", !.op = "create_new_version",
                                   !.kind = k, !.arg = content,
                                   !.metadata = load_version_metadata]
                 ELSE Idle]
  /\ UNCHANGED <<disk, versionsJson, tmpJson>>

\* create_new_version: the file is written and the record appended to the
\* metadata loaded before
write_version_file(p) ==
  /\ procs[p].pc = "write_file"
  /\ LET metadata == procs[p].metadata
         k == procs[p].kind
         versions == metadata[k].versions
         next_version == NextVersion(versions)
         new_filename == VersionFile(k, next_version)
         version_info == [file |-> new_filename, model |-> "model"]
     IN /\ next_version <= MaxVer
        /\ disk' = [disk EXCEPT ![new_filename] = procs[p].arg]
        /\ procs' = [procs EXCEPT ![p].pc = "save_open",
                                  ![p].metadata = [metadata EXCEPT ![k] =
                                     [latest |-> new_filename,
                                      versions |-> Append(versions, version_info)]]]
  /\ UNCHANGED <<versionsJson, tmpJson>>

\* fast_forward_version: current_version and latest_path are read, each by a
\* load of its own, before the metadata is loaded again
begin_fast_forward(p, k, target_version) ==
  /\ procs[p].pc = "idle"
  /\ procs' = [procs EXCEPT ![p] =
                 IF ~Parses(versionsJson) THEN Idle
                 ELSE LET current_version == get_latest_version_number(k)
                          latest_path == IF k \in VideoKinds
                                         THEN VersionFile(k, current_version)
                                         ELSE get_latest_version_path(k)
                      IN IF \/ current_version = 0
                            \/ AtOrAboveTarget(current_version, target_version)
                            \/ latest_path = NoFile
                            \/ ~Exists(latest_path)
                         THEN Idle
                         ELSE [Idle EXCEPT !.pc = "ff_load", !.op = "fast_forward_version",
                                           !.kind = k, !.arg = target_version,
                                           !.current = current_version,
                                           !.path = latest_path]]
  /\ UNCHANGED <<disk, versionsJson, tmpJson>>

\* fast_forward_version: metadata = load_version_metadata(page_dir)
ff_load(p) ==
  /\ procs[p].pc = "ff_load"
  /\ procs' = [procs EXCEPT ![p] =
                 IF Parses(versionsJson)
                 THEN [@ EXCEPT !.pc = "ff_copy", !.metadata = load_version_metadata]
                 ELSE Idle]
  /\ UNCHANGED <<disk, versionsJson, tmpJson>>

\* fast_forward_version: the loop that copies the file and appends the records
ff_copy(p) ==
  /\ procs[p].pc = "ff_copy"
  /\ LET metadata == procs[p].metadata
         k == procs[p].kind
         added == ForwardRecords(k, procs[p].current + 1, procs[p].arg)
     IN IF ~Exists(procs[p].path)
        THEN procs' = [procs EXCEPT ![p] = Idle] /\ UNCHANGED disk
        ELSE /\ disk' = [f \in DOMAIN disk |->
                           IF \E i \in 1..Len(added) : added[i].file = f
                           THEN disk[procs[p].path] ELSE disk[f]]
             /\ procs' = [procs EXCEPT ![p].pc = "save_open",
                                       ![p].metadata = [metadata EXCEPT ![k] =
                                          [latest |-> VersionFile(k, procs[p].arg),
                                           versions |-> metadata[k].versions \o added]]]
  /\ UNCHANGED <<versionsJson, tmpJson>>

\* discover_and_register_versions: metadata = load_version_metadata(page_dir)
begin_discover(p) ==
  /\ procs[p].pc = "idle"
  /\ procs' = [procs EXCEPT ![p] =
                 IF Parses(versionsJson)
                 THEN [Idle EXCEPT !.pc = "scan", !.op = "discover_and_register_versions",
                                   !.metadata = load_version_metadata]
                 ELSE Idle]
  /\ UNCHANGED <<disk, versionsJson, tmpJson>>

\* discover_and_register_versions: the directory is scanned for every kind;
\* the metadata is saved if anything was discovered
scan_directory(p) ==
  /\ procs[p].pc = "scan"
  /\ LET metadata == procs[p].metadata IN
     procs' = [procs EXCEPT ![p] =
                 IF Discovered(metadata) # {}
                 THEN [@ EXCEPT !.pc = "save_open",
                                !.metadata = [k \in AllKinds |-> DiscoverKind(metadata, k)]]
                 ELSE Idle]
  /\ UNCHANGED <<disk, versionsJson, tmpJson>>

\* save_version_metadata: open(tmp_file, 'w') creates versions.json.tmp or
\* truncates the one that is there
save_open(p) ==
  /\ procs[p].pc = "save_open"
  /\ tmpJson' = Truncated
  /\ procs' = [procs EXCEPT ![p].pc = "save_write", ![p].handle = "tmp"]
  /\ UNCHANGED <<disk, versionsJson>>

\* what the file holds after the document is written from offset 0: the
\* document, unless another writer's bytes were in the file, which may leave
\* a tail of them behind it
Written(before, metadata, torn) == IF before = Truncated \/ ~torn THEN metadata ELSE Torn

\* save_version_metadata: json.dump and close; the bytes go to the file the
\* handle was opened on, whatever name that file has by now
save_write(p, torn) ==
  /\ procs[p].pc = "save_write"
  /\ LET metadata == procs[p].metadata IN
     CASE procs[p].handle = "tmp" ->
            /\ torn => tmpJson # Truncated
            /\ tmpJson' = Written(tmpJson, metadata, torn)
            /\ UNCHANGED versionsJson
       [] procs[p].handle = "json" ->
            /\ torn => versionsJson # Truncated
            /\ versionsJson' = Written(versionsJson, metadata, torn)
            /\ UNCHANGED tmpJson
       [] OTHER -> ~torn /\ UNCHANGED <<versionsJson, tmpJson>>
  /\ procs' = [procs EXCEPT ![p].pc = "save_replace", ![p].handle = "none"]
  /\ UNCHANGED disk

\* save_version_metadata: tmp_file.replace(metadata_file); FileNotFoundError
\* when the other process has renamed the temp file away
save_replace(p) ==
  /\ procs[p].pc = "save_replace"
  /\ IF tmpJson = NoRecord
     THEN /\ procs' = [procs EXCEPT ![p] = Idle]
          /\ UNCHANGED <<versionsJson, tmpJson>>
     ELSE /\ versionsJson' = tmpJson
          /\ tmpJson' = NoRecord
          /\ procs' = [q \in Procs |->
                         IF q = p THEN Idle
                         ELSE [procs[q] EXCEPT !.handle =
                                 IF @ = "tmp" THEN "json"
                                 ELSE IF @ = "json" THEN "orphan" ELSE @]]
  /\ UNCHANGED disk

\* the process is killed in the middle of a call
crash(p) ==
  /\ procs[p].pc # "idle"
  /\ procs' = [procs EXCEPT ![p] = Idle]
  /\ UNCHANGED <<disk, versionsJson, tmpJson>>

SaveSteps(p) ==
  \/ ProcStep /\ save_open(p)
  \/ \E torn \in BOOLEAN : ProcStep /\ save_write(p, torn)
  \/ ProcStep /\ save_replace(p)

\* both processes create versions and run discovery, a page video is written
\* by its stage driver, a process may be killed
NextRace ==
  \/ \E p \in Procs, k \in ConcKinds, c \in Contents :
       ProcOp(MaxProcOps) /\ begin_create(p, k, c)
  \/ \E p \in Procs : ProcStep /\ write_version_file(p)
  \/ \E p \in Procs : ProcOp(MaxProcOps) /\ begin_discover(p)
  \/ \E p \in Procs : ProcStep /\ scan_directory(p)
  \/ \E p \in Procs : SaveSteps(p)
  \/ \E p \in Procs : ProcOp(MaxProcOps) /\ crash(p)
  \/ \E n \in 1..MaxVer, c \in Contents :
       Bounded(MaxProcOps) /\ WritePageVideo("en_video", n, c)

SpecRace == Init /\ [][NextRace]_vars

AllIdle == \A p \in Procs : procs[p] = Idle

\* both processes create and fast-forward versions; when both have stopped,
\* discovery runs
NextConverge ==
  \/ \E p \in Procs, k \in ConcKinds, c \in Contents :
       ProcOp(MaxConvergeOps) /\ begin_create(p, k, c)
  \/ \E p \in Procs : ProcStep /\ write_version_file(p)
  \/ \E p \in Procs, k \in ConcKinds, t \in 1..MaxVer :
       ProcOp(MaxConvergeOps) /\ begin_fast_forward(p, k, t)
  \/ \E p \in Procs : ProcStep /\ ff_load(p)
  \/ \E p \in Procs : ProcStep /\ ff_copy(p)
  \/ \E p \in Procs : SaveSteps(p)
  \/ /\ AllIdle
     /\ Parses(versionsJson)
     /\ Bounded(MaxConvergeOps)
     /\ discover_and_register_versions

SpecConverge == Init /\ [][NextConverge]_vars

\* the kind each process creates versions of: the dashboard the edited image,
\* the worker the video generated from it
PairKind(p) == IF p = "ui" THEN "image" ELSE "image_video"

\* each process creates versions of its own kind, in steps
NextPair ==
  \/ \E p \in Procs, c \in Contents : ProcOp(MaxPairOps) /\ begin_create(p, PairKind(p), c)
  \/ \E p \in Procs : ProcStep /\ write_version_file(p)
  \/ \E p \in Procs : SaveSteps(p)

SpecPair == Init /\ [][NextPair]_vars

\* ================================================================ properties
History(k) == load_version_metadata[k]

Ordinals(versions) == {versions[i].file.ver : i \in 1..Len(versions)}

\* the step just taken was a call of operation op
Called(op) == steps' # steps /\ call'.op = op

CalledWith(op, k, arg) == Called(op) /\ call'.kind = k /\ call'.arg = arg

\* C1: for every asset kind, 'latest' is empty when 'versions' is empty and
\* otherwise is the 'file' of some record in 'versions', after any sequence of
\* Version Manager operations.
LatestIsEmptyOrTracked ==
  \A k \in AllKinds :
    IF History(k).versions = <<>>
    THEN History(k).latest = NoFile
    ELSE History(k).latest \in TrackedFiles(History(k).versions)

\* cleanup_old_versions has cut a history of several versions down to its latest
LatestIsEmptyOrTrackedWitness ==
  /\ call.op = "cleanup_old_versions"
  /\ call.num >= 1
  /\ call.path # NoFile
  /\ History(call.kind).versions # <<>>
  /\ History(call.kind).latest = call.path
  /\ History(call.kind).latest \in TrackedFiles(History(call.kind).versions)

\* C2: after any sequence of create_new_version / fast_forward_version calls
\* (page-video files being written by the stage drivers) the ordinals in the
\* file names of 'versions' are exactly 1..len(versions), for all eight kinds.
OrdinalsAreDense ==
  \A k \in AllKinds : Ordinals(History(k).versions) = 1..Len(History(k).versions)

\* C3: the path create_new_version writes and returns did not exist on disk
\* and was not referenced by any record of the kind before the call.
CreateNeverOverwrites ==
  [][Called("create_new_version") /\ call'.ret = "path"
       => /\ ~Exists(call'.path)
          /\ call'.path \notin TrackedFiles(History(call'.kind).versions)]_vars

\* C4: a metadata-tracked kind that has a version keeps at least one version
\* record, and the file named by its 'latest' exists on disk.
LatestNeverDangles ==
  /\ [](\A k \in AllKinds \ VideoKinds :
          History(k).versions # <<>> => Exists(History(k).latest))
  /\ [][\A k \in AllKinds \ VideoKinds :
          History(k).versions # <<>> => versionsJson'[k].versions # <<>>]_vars

\* the file fast_forward_version copies: 'latest', or for the page-video kinds
\* the highest-numbered file on disk
FastForwardSource(k) ==
  IF k \in VideoKinds THEN VersionFile(k, get_latest_version_number(k))
  ELSE History(k).latest

FastForwardApplies(k, t) ==
  /\ k \in AllKinds
  /\ get_latest_version_number(k) >= 1
  /\ t > get_latest_version_number(k)

\* C5 (as stated): with current latest ordinal c >= 1 and target t > c,
\* fast_forward_version returns True, afterwards the latest ordinal and the
\* version count are t, 'latest' is the file at ordinal t, and ordinal t has
\* the content ordinal c had at the time of the call; for every kind.
FastForwardCopiesOrdinalC ==
  [][\A k \in AllKinds, t \in 1..MaxVer :
       CalledWith("fast_forward_version", k, t) /\ FastForwardApplies(k, t)
       => LET c == get_latest_version_number(k)
          IN /\ call'.ret = "True"
             /\ get_latest_version_number(k)' = t
             /\ get_version_count(k)' = t
             /\ versionsJson'[k].latest = VersionFile(k, t)
             /\ disk'[VersionFile(k, t)] = disk[VersionFile(k, c)]]_vars

\* C5 (amended): as above, except that the version count becomes t only for
\* the six metadata-tracked kinds (for en_video / hi_video it grows by t - c),
\* and every new ordinal c+1..t has the content of the file that was 'latest'
\* at the time of the call (for en_video / hi_video: of ordinal c).
FastForwardCopiesLatest ==
  [][\A k \in AllKinds, t \in 1..MaxVer :
       CalledWith("fast_forward_version", k, t) /\ FastForwardApplies(k, t)
       => LET c == get_latest_version_number(k)
          IN /\ call'.ret = "True"
             /\ get_latest_version_number(k)' = t
             /\ k \notin VideoKinds => get_version_count(k)' = t
             /\ k \in VideoKinds => get_version_count(k)' = get_version_count(k) + (t - c)
             /\ versionsJson'[k].latest = VersionFile(k, t)
             /\ \A n \in (c + 1)..t :
                  disk'[VersionFile(k, n)] = disk[FastForwardSource(k)]]_vars

\* a fast-forward that copied a restored version whose
\* content differs from the content of the highest ordinal
FastForwardCopiesLatestWitness ==
  /\ call.op = "fast_forward_version"
  /\ call.ret = "True"
  /\ call.path # VersionFile(call.kind, call.num)
  /\ disk[VersionFile(call.kind, call.arg)] # disk[VersionFile(call.kind, call.num)]

\* C6: delete_version returns False and changes nothing for the single
\* version and for the version that is 'latest'; for any other in-range
\* version it returns True, removes exactly that record and that record's
\* file, and every remaining record still refers to an existing file.
DeleteRemovesOneVersion ==
  [][Called("delete_version") /\ call'.kind \in AllKinds
       /\ call'.arg \in 1..Len(History(call'.kind).versions)
       => LET k == call'.kind
              n == call'.arg
              versions == History(k).versions
          IN IF Len(versions) = 1 \/ versions[n].file = History(k).latest
             THEN call'.ret = "False" /\ UNCHANGED <<disk, versionsJson>>
             ELSE /\ call'.ret = "True"
                  /\ versionsJson'[k].versions = RemoveAt(versions, n)
                  /\ Len(versionsJson'[k].versions) = Len(versions) - 1
                  /\ disk' = [disk EXCEPT ![versions[n].file] = Absent]
                  /\ (\A i \in 1..Len(versions) : Exists(versions[i].file))
                       => \A i \in 1..Len(versionsJson'[k].versions) :
                            disk'[versionsJson'[k].versions[i].file] # Absent]_vars

RestoreInRange(k, n) == k \in AllKinds /\ n >= 1 /\ n <= Len(History(k).versions)

\* what set_as_latest leaves alone: every record of every kind, the 'latest'
\* of the other kinds, and all files
RestoreFrame(k) ==
  /\ disk' = disk
  /\ versionsJson'[k].versions = History(k).versions
  /\ \A j \in AllKinds \ {k} : versionsJson'[j] = History(j)

FilesOfKind(k) == {f \in DOMAIN disk : f.base = BaseName(k) /\ f.ext = Extension(k)}

\* C8: cleanup_old_versions(K) deletes only files of kind K other than K's
\* 'latest', leaves versions[K] equal to exactly the record of K's latest,
\* returns the number of files deleted, and leaves the files, 'versions' and
\* 'latest' of every other kind unchanged.
CleanupTouchesOnlyItsKind ==
  [][\A k \in AllKinds :
       CalledWith("cleanup_old_versions", k, 0)
       => LET deleted == {f \in DOMAIN disk : Exists(f) /\ disk'[f] = Absent}
          IN /\ deleted \subseteq FilesOfKind(k) \ {History(k).latest}
             /\ \A f \in DOMAIN disk \ deleted : disk'[f] = disk[f]
             /\ call'.num = Cardinality(deleted)
             /\ versionsJson'[k].latest = History(k).latest
             /\ Len(versionsJson'[k].versions) <= 1
             /\ \A i \in 1..Len(versionsJson'[k].versions) :
                  /\ versionsJson'[k].versions[i].file = History(k).latest
                  /\ \E j \in 1..Len(History(k).versions) :
                       History(k).versions[j] = versionsJson'[k].versions[i]
             /\ History(k).versions # <<>> => versionsJson'[k].versions # <<>>
             /\ \A j \in AllKinds \ {k} : versionsJson'[j] = History(j)]_vars

\* C9: every kind's 'versions' list is in strictly ascending order of the
\* ordinal in its file names, so no file name appears in it twice.
VersionsStrictlyAscending ==
  \A k \in AllKinds :
    \A i \in 1..(Len(History(k).versions) - 1) :
      History(k).versions[i].file.ver < History(k).versions[i + 1].file.ver

\* C10: the N create_new_version calls made on a kind since it had no
\* versions produced the records with ordinals 1..N in call order, 'latest' is
\* the newest file, and the N returned paths are pairwise distinct.
CreateNumbersFromOne ==
  run.kind # "" =>
    LET N == Len(run.paths)
        h == History(run.kind)
    IN /\ Len(h.versions) = N
       /\ \A i \in 1..N :
            /\ run.paths[i] = VersionFile(run.kind, i)
            /\ h.versions[i].file = run.paths[i]
       /\ h.latest = run.paths[N]
       /\ \A i, j \in 1..N : i # j => run.paths[i] # run.paths[j]

\* three creates in a row on a kind that had no versions
CreateNumbersFromOneWitness ==
  /\ call.op = "create_new_version"
  /\ call.ret = "path"
  /\ run.kind = call.kind
  /\ Len(run.paths) >= 3

\* the kind has nothing fast_forward_version could copy: no version at all, or
\* the file it would copy is not there
NothingToCopy(k) ==
  \/ get_latest_version_number(k) = 0
  \/ FastForwardSource(k) = NoFile
  \/ ~Exists(FastForwardSource(k))

\* C11: fast_forward_version returns False, creates no file, adds no record
\* and leaves 'latest' unchanged when the kind has no version to copy from or
\* its current latest ordinal is at or above the target; so a second
\* fast_forward_version with the same target directly after a successful one
\* changes nothing.
FastForwardRefuses ==
  [][\A k \in KindInputs, t \in 1..MaxVer :
       CalledWith("fast_forward_version", k, t)
       => /\ (NothingToCopy(k) \/ get_latest_version_number(k) >= t)
               => call'.ret = "False" /\ UNCHANGED <<disk, versionsJson>>
          /\ (call.op = "fast_forward_version" /\ call.ret = "True"
                /\ call.kind = k /\ call.arg = t)
               => call'.ret = "False" /\ UNCHANGED <<disk, versionsJson>>]_vars

\* a fast-forward to the target a fast-forward has already reached was refused
FastForwardRefusesWitness ==
  /\ call.op = "fast_forward_version"
  /\ call.ret = "False"
  /\ call.kind \in AllKinds
  /\ call.num = call.arg
  /\ call.arg >= 2
  /\ \E i \in 1..Len(History(call.kind).versions) :
       History(call.kind).versions[i] =
         [file |-> VersionFile(call.kind, call.arg), model |-> "fast-forward"]

\* C12 (as stated): create_new_version raises its validation error exactly
\* when content_type is not one of the eight asset kinds; when it raises, no
\* file is written and the persisted record is unchanged.
CreateRaisesOutsideEightKinds ==
  [][\A k \in KindInputs :
       Called("create_new_version") /\ call'.kind = k
       => /\ call'.ret = "ValueError" <=> k \notin AllKinds
          /\ call'.ret = "ValueError" => UNCHANGED <<disk, versionsJson>>]_vars

\* C12 (amended): create_new_version raises ValueError exactly when
\* content_type is not one of the six kinds en_text, hi_text, en_audio,
\* hi_audio, image, image_video, so also for en_video and hi_video; when it
\* raises, no file is written and the persisted record is unchanged.
CreateRaisesOutsideSixKinds ==
  [][\A k \in KindInputs :
       Called("create_new_version") /\ call'.kind = k
       => /\ call'.ret = "ValueError" <=> k \notin (AllKinds \ VideoKinds)
          /\ call'.ret = "ValueError" => UNCHANGED <<disk, versionsJson>>]_vars

\* create_new_version raised for a page-video kind while the unit already had
\* a persisted record
CreateRaisesOutsideSixKindsWitness ==
  /\ call.op = "create_new_version"
  /\ call.ret = "ValueError"
  /\ call.kind \in VideoKinds
  /\ versionsJson # NoRecord
  /\ \E k \in AllKinds : History(k).versions # <<>>

\* C13: at every instant, between the steps of a save, after a process was
\* killed in a save, and while both processes save, versions.json is absent
\* or holds one complete record that a save wrote, never a partial or mixed
\* one.
SavedRecordIsWhole == versionsJson = NoRecord \/ Parses(versionsJson)

\* process p completes the save of its discover_and_register_versions call
DiscoverSaves(p) ==
  /\ procs[p].op = "discover_and_register_versions"
  /\ procs[p].pc = "save_replace"
  /\ procs'[p].pc = "idle"
  /\ tmpJson # NoRecord
  /\ tmpJson' = NoRecord

\* C14: discover_and_register_versions of one process, interleaved with
\* create_new_version calls of the other, only adds records: every record
\* that is in the persisted record before discover's save is in it
\* afterwards, with the same file and at the same index.
DiscoverOnlyAdds ==
  [][\A p \in Procs :
       (DiscoverSaves(p) /\ versionsJson # NoRecord
          /\ Parses(versionsJson) /\ Parses(versionsJson'))
       => \A k \in AllKinds : \A i \in 1..Len(versionsJson[k].versions) :
            /\ i <= Len(versionsJson'[k].versions)
            /\ versionsJson'[k].versions[i].file = versionsJson[k].versions[i].file]_vars

FileOccurrences(versions, f) == Cardinality({i \in 1..Len(versions) : versions[i].file = f})

\* C15: after any interleaving of create_new_version / fast_forward_version
\* calls of the two processes, once both have stopped, one
\* discover_and_register_versions leaves a record in which every version
\* file on disk has exactly one record under its kind (stated for the runs
\* in which versions.json is a complete record when discovery starts).
ConvergesAfterDiscover ==
  [][Called("discover_and_register_versions")
       => \A k \in AllKinds, n \in 1..MaxVer :
            Exists(VersionFile(k, n))
            => FileOccurrences(load_version_metadata'[k].versions, VersionFile(k, n)) = 1]_vars

\* C16: a discover_and_register_versions call directly after another one,
\* with no file-system change in between, registers nothing: it returns an
\* empty result and leaves 'versions' and 'latest' of every kind unchanged.
DiscoverTwiceRegistersNothing ==
  [][call.op = "discover_and_register_versions"
       /\ Called("discover_and_register_versions")
       => /\ call'.num = 0
          /\ \A k \in AllKinds : load_version_metadata'[k] = History(k)
          /\ UNCHANGED <<disk, versionsJson>>]_vars

\* a discover call registered nothing although the record holds versions
\* that a discover call registered
DiscoverTwiceRegistersNothingWitness ==
  /\ call.op = "discover_and_register_versions"
  /\ call.num = 0
  /\ \E k \in AllKinds : \E i \in 1..Len(History(k).versions) :
       /\ History(k).versions[i].model = "external"
       /\ History(k).latest = History(k).versions[Len(History(k).versions)].file

\* files on disk that match the naming pattern of kind k and have no record
Untracked(k) ==
  {f \in {VersionFile(k, n) : n \in 1..MaxVer} :
     Exists(f) /\ \A i \in 1..Len(History(k).versions) : History(k).versions[i].file # f}

Occurrences(versions, r) == Cardinality({i \in 1..Len(versions) : versions[i] = r})

\* C17: one discover_and_register_versions call registers every untracked
\* file matching a kind's pattern exactly once with producer 'external',
\* leaves every already-tracked record as it was, results in 'versions'
\* sorted ascending by the ordinal in the file name, and sets 'latest' of each
\* kind it registered a file for to that kind's highest-ordinal file.
DiscoverRegistersAndSorts ==
  [][Called("discover_and_register_versions")
       => \A k \in AllKinds :
            LET old == History(k).versions
                new == load_version_metadata'[k].versions
            IN /\ \A f \in Untracked(k) :
                    Occurrences(new, [file |-> f, model |-> "external"]) = 1
               /\ Len(new) = Len(old) + Cardinality(Untracked(k))
               /\ \A i \in 1..Len(old) : Occurrences(new, old[i]) >= Occurrences(old, old[i])
               /\ \A i \in 1..(Len(new) - 1) : new[i].file.ver <= new[i + 1].file.ver
               /\ Untracked(k) # {}
                    => /\ \E i \in 1..Len(new) : load_version_metadata'[k].latest = new[i].file
                       /\ \A i \in 1..Len(new) : new[i].file.ver <= load_version_metadata'[k].latest.ver
               /\ Untracked(k) = {} => load_version_metadata'[k].latest = History(k).latest]_vars

\* C18: migrate_legacy_files adopts a legacy flat file as ordinal 1 only for a
\* kind that has no recorded versions; a second call directly after the first
\* adds no record, renames no file and leaves 'versions' and 'latest' of every
\* kind unchanged.
MigrateAdoptsOnce ==
  [][Called("migrate_legacy_files")
       => /\ \A k \in AllKinds :
               versionsJson'[k] # History(k)
               => /\ History(k).versions = <<>>
                  /\ Exists(LegacyFile(k))
                  /\ versionsJson'[k].versions =
                       <<[file |-> VersionFile(k, 1), model |-> "unknown (migrated)"]>>
                  /\ versionsJson'[k].latest = VersionFile(k, 1)
                  /\ disk'[VersionFile(k, 1)] = disk[LegacyFile(k)]
                  /\ disk'[LegacyFile(k)] = Absent
          /\ call.op = "migrate_legacy_files"
               => /\ call'.num = 0
                  /\ disk' = disk
                  /\ \A k \in AllKinds : versionsJson'[k] = History(k)]_vars

\* a migrate call adopted nothing although the record holds a version that a
\* migrate call adopted and that is still 'latest'
MigrateAdoptsOnceWitness ==
  /\ call.op = "migrate_legacy_files"
  /\ call.num = 0
  /\ \E k \in LegacyKinds :
       /\ History(k).versions = <<[file |-> VersionFile(k, 1), model |-> "unknown (migrated)"]>>
       /\ History(k).latest = VersionFile(k, 1)
       /\ ~Exists(LegacyFile(k))

InSeq(x, seq) == \E i \in 1..Len(seq) : seq[i] = x

\* mark_prompt_as_processing has been applied to the content
Claimed(content) == content.status = "PROCESSING" \/ InSeq("# Processing started", content.lines)

ArchivedAs(type, target_version, suffix) ==
  queue[[type |-> type, target |-> target_version, suffix |-> suffix]] # NoTask

\* where a task stands: by the name of its file, and inside the polling set
\* by what mark_prompt_as_processing has written into it
TaskState(type, target_version) ==
  IF queue[PromptFile(type, target_version)] # NoTask
  THEN IF Claimed(queue[PromptFile(type, target_version)]) THEN "processing" ELSE "pending"
  ELSE IF ArchivedAs(type, target_version, ".txt.completed")
            \/ ArchivedAs(type, target_version, ".txt.failed")
       THEN "archived" ELSE "none"

\* C19: for both task kinds a task is pending right after it is enqueued, is
\* processing after mark_prompt_as_processing, and after
\* mark_prompt_as_completed / mark_prompt_as_failed it is archived under
\* .txt.completed / .txt.failed and out of what get_queued_prompts returns,
\* where only a new enqueue puts its name again.
TaskLifecycle ==
  [][\A ty \in TaskTypes, n \in Targets :
       LET f == PromptFile(ty, n) IN
       /\ (CalledWith("queue_image_edit_prompt", ty, n)
             \/ CalledWith("queue_image_to_video_prompt", ty, n))
            => /\ TaskState(ty, n)' = "pending"
               /\ InSeq(f, get_queued_prompts(ty)')
               /\ ty = "image_edit" => queue'[f].status = "PENDING"
       /\ CalledWith("mark_prompt_as_processing", ty, n) /\ queue[f] # NoTask
            => /\ call'.ret = "True"
               /\ TaskState(ty, n)' = "processing"
               /\ InSeq(f, get_queued_prompts(ty)')
               /\ ty = "image_edit" => queue'[f].status = "PROCESSING"
       /\ CalledWith("mark_prompt_as_completed", ty, n) /\ queue[f] # NoTask
            => /\ call'.ret = "True"
               /\ TaskState(ty, n)' = "archived"
               /\ ArchivedAs(ty, n, ".txt.completed")'
               /\ ~InSeq(f, get_queued_prompts(ty)')
               /\ ty = "image_edit"
                    => queue'[[f EXCEPT !.suffix = ".txt.completed"]].status = "COMPLETED"
       /\ CalledWith("mark_prompt_as_failed", ty, n) /\ queue[f] # NoTask
            => /\ call'.ret = "True"
               /\ TaskState(ty, n)' = "archived"
               /\ ArchivedAs(ty, n, ".txt.failed")'
               /\ ~InSeq(f, get_queued_prompts(ty)')
               /\ ty = "image_edit"
                    => queue'[[f EXCEPT !.suffix = ".txt.failed"]].status = "FAILED"
       /\ (~InSeq(f, get_queued_prompts(ty)) /\ InSeq(f, get_queued_prompts(ty)'))
            => (CalledWith("queue_image_edit_prompt", ty, n)
                 \/ CalledWith("queue_image_to_video_prompt", ty, n))]_vars

\* C20: with a single worker, I/O errors on the queue files and restarts of
\* the worker included, each enqueued task is claimed once, executed (the
\* external generation called, a version created) at most once, and not
\* processed again after it was finished.
TaskProcessedOnce ==
  \A t \in TaskNames :
    /\ hist[t].claims <= 1
    /\ hist[t].execs <= 1
    /\ hist[t].creates <= 1

\* a task of each kind went from pending to processing and was archived, one
\* as completed and one as failed
TaskLifecycleWitness ==
  /\ call.op \in {"mark_prompt_as_completed", "mark_prompt_as_failed"}
  /\ call.ret = "True"
  /\ \E n \in Targets :
       /\ ArchivedAs("image_edit", n, ".txt.completed")
       /\ Claimed(queue[[type |-> "image_edit", target |-> n, suffix |-> ".txt.completed"]])
       /\ TaskState("image_edit", n) = "archived"
  /\ \E n \in Targets :
       /\ ArchivedAs("image_to_video", n, ".txt.failed")
       /\ Claimed(queue[[type |-> "image_to_video", target |-> n, suffix |-> ".txt.failed"]])
       /\ TaskState("image_to_video", n) = "archived"

\* C21: get_queued_prompts(type) returns exactly the tasks of that type that
\* are pending: a task that was claimed and is not archived yet, and an
\* archived task, is not in the result.
QueuedAreThePending ==
  \A ty \in TaskTypes, n \in Targets :
    InSeq(PromptFile(ty, n), get_queued_prompts(ty)) <=> TaskState(ty, n) = "pending"

\* content_viewer.get_expected_version_for_pdf for a document of one content
\* unit: the largest get_latest_version_number over the eight kinds
viewer_get_expected_version_for_pdf ==
  SetMax({0} \cup {get_latest_version_number(k) : k \in AllKinds})

\* the kinds pipeline_stages.get_expected_version_for_pdf loops over
BatchKinds == {"en_text", "hi_text", "en_audio", "hi_audio", "en_video", "hi_video", "image_video"}

\* pipeline_stages.get_expected_version_for_pdf for a document of one content
\* unit: the largest get_version_count over its kinds, starting from 1
batch_get_expected_version_for_pdf ==
  SetMax({1} \cup {get_version_count(k) : k \in BatchKinds})

\* C26: in every store state the expected version of the batch fast-forward
\* tooling equals max(1, expected version of the dashboard viewer), the
\* viewer's being the largest get_latest_version_number over all kinds.
ExpectedVersionsAgree ==
  batch_get_expected_version_for_pdf = SetMax({1, viewer_get_expected_version_for_pdf})

\* what read_prompt_from_file returns when it returns the caller's prompt and
\* nothing else
PromptOnly(prompt) == [prompt |-> prompt, trailing |-> <<>>]

\* C22: for both on-disk formats read_prompt_from_file returns exactly the
\* prompt given to the enqueue call, while the task is pending and after
\* mark_prompt_as_processing has been applied to the file.
ReadReturnsThePrompt ==
  \A ty \in TaskTypes, n \in Targets :
    LET f == PromptFile(ty, n) IN
    queue[f] # NoTask => read_prompt_from_file(f) = PromptOnly(queue[f].prompt)

\* C23: a worker in continuous mode whose polling cycle raised an exception
\* outside any single task logs it and stays alive to start another cycle;
\* it ends only on a termination signal.
CycleErrorIsRetried == main.raised = "Exception" => main.running

\* C24: an interrupt takes effect only between tasks or cycles: a task that
\* was claimed is archived before the worker exits, so no task is in the
\* processing state after a shutdown.
InterruptFinalizesClaimed ==
  main.raised = "KeyboardInterrupt"
    => \A ty \in TaskTypes, n \in Targets : TaskState(ty, n) # "processing"

\* the worker leaves the try block of the task it has claimed
LeavesTry == worker.pc = "try" /\ worker'.pc # "try"

\* the worker runs the except block of the task it has claimed
HandlesException == worker.pc = "except" /\ worker'.pc # "except"

ArchivesCompleted == worker.pc = "complete" /\ worker'.pc # "complete"

\* C27: whenever the worker archives a task <type>_prompt_for_v<N> as
\* completed, exactly one version of the task's kind was created for it
\* before, and that version's ordinal is N, whatever the dashboard did on the
\* unit in between.
CompletedTaskHasItsVersion ==
  [][ArchivesCompleted
       => /\ hist[TaskName(worker.current)].creates = 1
          /\ worker.created = worker.current.target]_vars

\* the task file is in the polling set of a unit the dashboard shows
QueuedInScene(type, target_version) ==
  main.unit = "scene_" /\ queue[PromptFile(type, target_version)] # NoTask

\* the task file has left the polling set and is archived
Archived(type, target_version) ==
  /\ queue[PromptFile(type, target_version)] = NoTask
  /\ \/ ArchivedAs(type, target_version, ".txt.completed")
     \/ ArchivedAs(type, target_version, ".txt.failed")

\* C30: while the worker keeps polling and every generation call returns,
\* every task the dashboard enqueued in a scene_ directory is eventually
\* archived as .completed or .failed, with a --pdf-stem filter and without.
EnqueuedIsEventuallyArchived ==
  \A ty \in TaskTypes, n \in Targets : QueuedInScene(ty, n) ~> Archived(ty, n)

\* the task file is deleted, or holds another prompt than before
TaskLost(f) == queue[f] # NoTask /\ (queue'[f] = NoTask \/ queue'[f].prompt # queue[f].prompt)

\* C28: a task in the pending set leaves it only through
\* mark_prompt_as_completed or mark_prompt_as_failed: no enqueue and no
\* Version Manager operation, cleanup_untracked_variations included, deletes
\* a pending task file or replaces its prompt.
PendingLeavesOnlyByArchiving ==
  [][\A ty \in TaskTypes, n \in Targets :
       TaskLost(PromptFile(ty, n))
       => \/ CalledWith("mark_prompt_as_completed", ty, n)
          \/ CalledWith("mark_prompt_as_failed", ty, n)]_vars

\* the highest ordinal among the files of kind k on disk
HighestOnDisk(k) == SetMax({n \in 1..MaxVer : Exists(VersionFile(k, n))})

\* C29: when the interactive process and the worker have each run a
\* create_new_version on the same unit for different kinds, then for every
\* interleaving of their load, write-file and save steps the persisted
\* record holds both new records and each kind's 'latest' names its new file.
BothCreatesPersist ==
  (AllIdle /\ (versionsJson = NoRecord \/ Parses(versionsJson)))
    => \A k \in ConcKinds :
         /\ \A n \in 1..MaxVer :
              Exists(VersionFile(k, n))
              => FileOccurrences(load_version_metadata[k].versions, VersionFile(k, n)) = 1
         /\ HighestOnDisk(k) > 0
              => load_version_metadata[k].latest = VersionFile(k, HighestOnDisk(k))
====
